---- MODULE Spec2Model ----
(***************************************************************************)
(* A model of pgbulk (src/pgbulk/core.py): the compilation of bulk upsert  *)
(* and bulk update statements, and their effect on one table.              *)
(*                                                                         *)
(* The table is the one of a Django model with the fields                  *)
(*   id       AutoField, primary key                                       *)
(*   owner    ForeignKey, unique (attname and column "owner_id")           *)
(*   v        CharField, nullable                                          *)
(*   created  DateTimeField(auto_now_add=True)                             *)
(*   modified DateTimeField(auto_now=True)                                 *)
(*   gen      GeneratedField                                               *)
(* Python's None / SQL NULL is written 0 in the integer and time columns   *)
(* (keys and times start at 1) and "None" in the text column.              *)
(***************************************************************************)
EXTENDS Integers, Sequences, FiniteSets, TLC

\* ------------------------------------------------------------------ bounds
MaxKey == 2
MaxBatch == 2
MaxTime == 2

Keys == 1..MaxKey
Times == 1..MaxTime
Vals == {"None", "a"}

\* ----------------------------------------------------------------- helpers
Range(s) == {s[i] : i \in DOMAIN s}

RECURSIVE Flatten(_)
Flatten(ss) == IF ss = <<>> THEN <<>> ELSE Head(ss) \o Flatten(Tail(ss))

RECURSIVE Join(_, _)
Join(ss, sep) ==
    IF ss = <<>> THEN <<>>
    ELSE IF Len(ss) = 1 THEN Head(ss)
    ELSE Head(ss) \o sep \o Join(Tail(ss), sep)

Count(s, x) == Cardinality({i \in DOMAIN s : s[i] = x})

SeqsUpTo(S, n) == UNION {[1..k -> S] : k \in 0..n}

\* ------------------------------------------------------------------ schema
Table == "t"

Field(name, attname, pk, auto, now, nowadd, gen, dbtype) ==
    [name |-> name, attname |-> attname, column |-> attname,
     primary_key |-> pk, is_autofield |-> auto, auto_now |-> now,
     auto_now_add |-> nowadd, generated |-> gen, concrete |-> TRUE,
     db_type |-> dbtype]

\* model._meta.fields
MetaFields ==
    << Field("id", "id", TRUE, TRUE, FALSE, FALSE, FALSE, "integer"),
       Field("owner", "owner_id", FALSE, FALSE, FALSE, FALSE, FALSE, "integer"),
       Field("v", "v", FALSE, FALSE, FALSE, FALSE, FALSE, "varchar"),
       Field("created", "created", FALSE, FALSE, FALSE, TRUE, FALSE, "timestamptz"),
       Field("modified", "modified", FALSE, FALSE, TRUE, FALSE, FALSE, "timestamptz"),
       Field("gen", "gen", FALSE, FALSE, FALSE, FALSE, TRUE, "varchar") >>

\* model._meta.pk
PkField == CHOOSE f \in Range(MetaFields) : f.primary_key

\* model._meta.get_field(name): by field name or attname, over every field;
\* FieldDoesNotExist otherwise.
HasField(n) == \E f \in Range(MetaFields) : f.name = n \/ f.attname = n
GetField(n) == CHOOSE f \in Range(MetaFields) : f.name = n \/ f.attname = n

\* _model_fields: the fields that are concrete and not generated.
ModelFields == SelectSeq(MetaFields, LAMBDA f : ~f.generated /\ f.concrete)

\* An update field: a str, or an UpdateField (a str carrying an expression).
\* An expression is <<>> (None) or <<"Value", c>>, the constant string c. A plain
\* str carries none.
Plain(n) == [name |-> n, expression |-> <<>>]
UpdateField(n, e) == [name |-> n, expression |-> e]
Names(fs) == [i \in DOMAIN fs |-> fs[i].name]

\* The dict of _get_update_fields, keyed by attname and by name.
InFieldsDict(n) == \E f \in Range(ModelFields) : f.name = n \/ f.attname = n
FieldsDict(n) == CHOOSE f \in Range(ModelFields) : f.name = n \/ f.attname = n

\* Updatable without the auto_now_add condition.
UpdatableLoose(field) == ~field.primary_key

\* The conditions of _get_update_fields on the field of an entry: neither
\* auto_now_add nor the primary key.
Updatable(field) == ~field.auto_now_add /\ ~field.primary_key

\* fields[attname] raises KeyError for a name the dict does not hold. The
\* comprehension looks an entry up only when it is not excluded.
KeyErrorRaised(given, exclude) ==
    \E i \in DOMAIN given :
        given[i].name \notin Range(exclude) /\ ~InFieldsDict(given[i].name)

\* _get_update_fields: [error, fields]. to_update is [some, val]: some = FALSE
\* is None.
GetUpdateFields(to_update, exclude) ==
    LET given == IF to_update.some THEN to_update.val
                 ELSE [i \in DOMAIN ModelFields |-> Plain(ModelFields[i].attname)]
        keep(e) == /\ e.name \notin Range(exclude)
                   /\ InFieldsDict(e.name)
                   /\ Updatable(FieldsDict(e.name))
    IN  IF KeyErrorRaised(given, exclude)
        THEN [error |-> "KeyError", fields |-> <<>>]
        ELSE [error |-> "", fields |-> SelectSeq(given, keep)]

\* ------------------------------------------------------- records and values
\* A record (model instance) is a function from the attnames to values.
AttNames == {"id", "owner_id", "v", "created", "modified"}

\* _fill_auto_fields that sets no attribute.
FillNothing(objs, now) == objs

\* _fill_auto_fields: every auto_now and auto_now_add attribute is set to now.
FillAutoFields(objs, now) ==
    LET auto_field_names ==
            {f.attname : f \in {g \in Range(ModelFields) : g.auto_now \/ g.auto_now_add}}
    IN  [i \in DOMAIN objs |->
            [a \in DOMAIN objs[i] |-> IF a \in auto_field_names THEN now ELSE objs[i][a]]]

\* _get_field_db_val: field.get_db_prep_save(value): an integer key, a string
\* and a timestamp are stored as they are, None as NULL.
GetFieldDbVal(field, value) == value

\* Python's order on tuples of integers: a <= b.
RECURSIVE TupleLeq(_, _)
TupleLeq(a, b) ==
    IF a = <<>> THEN TRUE
    ELSE IF b = <<>> THEN FALSE
    ELSE IF Head(a) < Head(b) THEN TRUE
    ELSE IF Head(a) > Head(b) THEN FALSE
    ELSE TupleLeq(Tail(a), Tail(b))

\* sorted(): stable, ascending in the key. s is a sequence of [key, obj].
RECURSIVE InsertByKey(_, _)
InsertByKey(s, x) ==
    IF s = <<>> THEN <<x>>
    ELSE IF TupleLeq(s[Len(s)].key, x.key) THEN Append(s, x)
    ELSE Append(InsertByKey(SubSeq(s, 1, Len(s) - 1), x), s[Len(s)])

RECURSIVE SortedByKey(_)
SortedByKey(s) ==
    IF s = <<>> THEN <<>>
    ELSE InsertByKey(SortedByKey(SubSeq(s, 1, Len(s) - 1)), s[Len(s)])

\* _sort_by_unique_fields: the key is the tuple of the db values of the model
\* fields whose attname is in unique_fields.
SortByUniqueFields(objs, unique_fields) ==
    LET unique_db_fields ==
            SelectSeq(ModelFields, LAMBDA f : f.attname \in Range(unique_fields))
        sort_key(o) ==
            [j \in DOMAIN unique_db_fields |->
                GetFieldDbVal(unique_db_fields[j], o[unique_db_fields[j].attname])]
        keyed == [i \in DOMAIN objs |-> [key |-> sort_key(objs[i]), obj |-> objs[i]]]
        sorted == SortedByKey(keyed)
    IN  [i \in DOMAIN sorted |-> sorted[i].obj]

\* sorted(model_objs, key=lambda obj: obj.pk) of _update.
SortByPk(objs) ==
    LET keyed == [i \in DOMAIN objs |->
                    [key |-> <<objs[i][PkField.attname]>>, obj |-> objs[i]]]
        sorted == SortedByKey(keyed)
    IN  [i \in DOMAIN sorted |-> sorted[i].obj]

\* _get_values_for_row
GetValuesForRow(obj, all_fields) ==
    [j \in DOMAIN all_fields |-> GetFieldDbVal(all_fields[j], obj[all_fields[j].attname])]

\* --------------------------------------------------------------- SQL text
\* SQL text is a sequence of tokens; "%s" is the driver's placeholder.
Quote(field) == "\"" \o field \o "\""

\* _get_values_for_rows: the groups of placeholders, and the flat arguments.
\* A placeholder is <<"%s", "::type">> in the first group and <<"%s">> after it.
GetValuesForRows(objs, all_fields) ==
    [row_values |->
        [i \in DOMAIN objs |->
            [j \in DOMAIN all_fields |->
                IF i = 1 THEN <<"%s", "::" \o all_fields[j].db_type>> ELSE <<"%s">>]],
     sql_args |-> Flatten([i \in DOMAIN objs |-> GetValuesForRow(objs[i], all_fields)])]

\* _prep_sql_args: an argument with as_sql becomes a literal; the arguments
\* of this model are plain values and are passed as they are.
PrepSqlArgs(sql_args) == sql_args

\* _get_returning_sql. returning is [all, cols]: True is all = TRUE, False is
\* the empty list of columns.
GetReturningSql(returning, include_status) ==
    LET cols == IF returning.all
                THEN [i \in DOMAIN ModelFields |-> ModelFields[i].column]
                ELSE returning.cols
    IN  IF cols = <<>>
        THEN [present |-> FALSE, cols |-> <<>>, status |-> FALSE]
        ELSE [present |-> TRUE, cols |-> cols, status |-> include_status]

\* The status expression with its two arms exchanged.
StatusCaseSwapped(xmax) == IF xmax = 0 THEN "u" ELSE "c"

\* The status expression of the RETURNING clause:
\* CASE WHEN xmax = 0 THEN 'c' ELSE 'u' END.
StatusCase(xmax) == IF xmax = 0 THEN "c" ELSE "u"

\* An SQL value expression: a column of an alias, or literal text.
Ref(alias, col) ==
    [kind |-> "ref", alias |-> alias, col |-> col, text |-> <<alias, ".", Quote(col)>>]
Lit(text) == [kind |-> "lit", alias |-> "", col |-> "", text |-> text]

\* cursor.mogrify(*expr.as_sql(...)) renders Value(c) as the quoted literal.
Mogrify(expression) == <<"'", expression[2], "'">>

RECURSIVE Dedup(_)
Dedup(s) ==
    IF s = <<>> THEN <<>>
    ELSE LET d == Dedup(SubSeq(s, 1, Len(s) - 1))
         IN  IF s[Len(s)] \in Range(d) THEN d ELSE Append(d, s[Len(s)])

\* The comparison that is unknown, not true, when an operand is NULL.
NotEqualOperator == "<>"

\* The comparison operator of the change predicate.
ChangeOperator == "IS DISTINCT FROM"

\* _get_update_fields_sql: the SET list and the change predicate.
GetUpdateFieldsSql(fields, alias, ignore_unchanged) ==
    LET cols == [i \in DOMAIN fields |-> GetField(fields[i].name).column]
        hasExpr(i) == fields[i].expression # <<>>
        \* update_expressions: a dict keyed by the field (a str): a later
        \* entry of the same name replaces the value, not the position.
        exprKeys == Dedup(Names(SelectSeq(fields, LAMBDA f : f.expression # <<>>)))
        exprOf(n) ==
            LET last == CHOOSE i \in DOMAIN fields :
                            /\ fields[i].name = n /\ hasExpr(i)
                            /\ \A k \in DOMAIN fields :
                                  (fields[k].name = n /\ hasExpr(k)) => k <= i
            IN  fields[last].expression
        \* update_fields_expressions: a dict keyed by column.
        dictKeys == Dedup(cols)
        overriding(c) == {k \in DOMAIN exprKeys : GetField(exprKeys[k]).column = c}
        dictVal(c) ==
            IF overriding(c) = {} THEN Ref(alias, c)
            ELSE LET k == CHOOSE m \in overriding(c) : \A n \in overriding(c) : n <= m
                 IN  Lit(Mogrify(exprOf(exprKeys[k])))
    IN  [set |-> [i \in DOMAIN cols |-> [col |-> cols[i], expr |-> dictVal(cols[i])]],
         where |->
            IF ignore_unchanged /\ cols # <<>>
            THEN [present |-> TRUE, op |-> ChangeOperator, left |-> cols,
                  right |-> [k \in DOMAIN dictKeys |-> dictVal(dictKeys[k])]]
            ELSE [present |-> FALSE, op |-> "", left |-> <<>>, right |-> <<>>]]

NoStmt == [kind |-> "none"]

\* The conflict arm that updates only when more than one column is to be set.
OnConflictSeveral(update_db_cols) ==
    IF Len(update_db_cols) > 1 THEN "UPDATE" ELSE "NOTHING"

\* The conflict arm of _get_upsert_sql.
OnConflict(update_db_cols) == IF update_db_cols # <<>> THEN "UPDATE" ELSE "NOTHING"

\* _get_upsert_sql: [error, stmt, sql_args].
GetUpsertSql(objs, unique_fields, update_fields, returning, ignore_unchanged) ==
    LET all_fields ==
            SelectSeq(ModelFields,
                      LAMBDA f : f.column \in Range(unique_fields) \/ ~f.is_autofield)
        all_field_names == [j \in DOMAIN all_fields |-> all_fields[j].column]
        values == GetValuesForRows(objs, all_fields)
        update_sql == GetUpdateFieldsSql(update_fields, "EXCLUDED", ignore_unchanged)
        update_db_cols ==
            [i \in DOMAIN update_fields |-> GetField(update_fields[i].name).column]
    IN  IF \E i \in DOMAIN unique_fields : ~HasField(unique_fields[i])
        THEN [error |-> "FieldDoesNotExist", stmt |-> NoStmt, sql_args |-> <<>>]
        ELSE [error |-> "",
              stmt |->
                [kind |-> "insert",
                 table |-> Table,
                 columns |-> all_field_names,
                 row_values |-> values.row_values,
                 conflict_target |->
                    [i \in DOMAIN unique_fields |-> GetField(unique_fields[i]).column],
                 do |-> OnConflict(update_db_cols),
                 set |-> update_sql.set,
                 where |-> update_sql.where,
                 returning |-> GetReturningSql(returning, TRUE)],
              sql_args |-> values.sql_args]


\* The text of the upsert statement (the format string of _get_upsert_sql).
Commas(ss) == Join(ss, <<",">>)
QuotedCols(cols) == Commas([i \in DOMAIN cols |-> <<Quote(cols[i])>>])
TableCols(cols) ==
    Commas([i \in DOMAIN cols |-> <<Quote(Table), ".", Quote(cols[i])>>])
GroupsText(row_values) ==
    Commas([i \in DOMAIN row_values |-> <<"(">> \o Commas(row_values[i]) \o <<")">>])
SetText(set) ==
    Commas([i \in DOMAIN set |-> <<Quote(set[i].col), "=">> \o set[i].expr.text])
WhereText(w) ==
    IF ~w.present THEN <<>>
    ELSE <<"((">> \o TableCols(w.left) \o <<")", w.op, "(">>
         \o Commas([i \in DOMAIN w.right |-> w.right[i].text]) \o <<"))">>
ReturningText(r) ==
    IF ~r.present THEN <<>>
    ELSE <<"RETURNING">> \o TableCols(r.cols)
         \o (IF r.status
             THEN <<",", "CASE WHEN xmax = 0 THEN 'c' ELSE 'u' END AS status_">>
             ELSE <<>>)

UpsertText(stmt) ==
    <<"INSERT INTO", stmt.table, "(">> \o QuotedCols(stmt.columns) \o <<")", "VALUES">>
    \o GroupsText(stmt.row_values)
    \o <<"ON CONFLICT", "(">> \o QuotedCols(stmt.conflict_target) \o <<")">>
    \o (IF stmt.do = "UPDATE"
        THEN <<"DO UPDATE SET">> \o SetText(stmt.set)
             \o (IF stmt.where.present THEN <<"WHERE">> \o WhereText(stmt.where) ELSE <<>>)
        ELSE <<"DO NOTHING">>)
    \o ReturningText(stmt.returning)

\* ------------------------------------------------------------ the database
\* What cursor.execute does with a statement: the driver binds one argument
\* to each placeholder of the text, and PostgreSQL runs the statement, in one
\* transaction: an error leaves the table as it was.
Columns == {"id", "owner_id", "v", "created", "modified"}
NullOf(col) == IF col = "v" THEN "None" ELSE 0

NumPlaceholders(text) == Count(text, "%s")

\* The value of an expression for the existing row e and the proposed row p.
Eval(expr, e, p) ==
    IF expr.kind = "ref" THEN p[expr.col] ELSE expr.text[2]

\* A row comparison: IS DISTINCT FROM treats NULL as a value; <> is unknown
\* (not true) unless two non-null entries differ.
Compare(op, col, a, b) ==
    IF op = "IS DISTINCT FROM" THEN a # b
    ELSE a # NullOf(col) /\ b # NullOf(col) /\ a # b

WhereHolds(w, e, p) ==
    ~w.present \/ \E k \in DOMAIN w.left :
                      Compare(w.op, w.left[k], e[w.left[k]], Eval(w.right[k], e, p))

ApplySet(set, e, p) ==
    [c \in DOMAIN e |->
        IF \E i \in DOMAIN set : set[i].col = c
        THEN Eval(set[CHOOSE i \in DOMAIN set : set[i].col = c].expr, e, p)
        ELSE e[c]]

\* What the statement's analysis rejects before it touches a row.
AnalysisError(text, sql_args, set, where, returning) ==
    IF NumPlaceholders(text) # Len(sql_args) THEN "PlaceholderMismatch"
    ELSE IF \E i, j \in DOMAIN set : i # j /\ set[i].col = set[j].col
         THEN "MultipleAssignments"
    ELSE IF where.present /\ Len(where.left) # Len(where.right) THEN "RowSizeMismatch"
    ELSE IF \E i \in DOMAIN returning.cols : returning.cols[i] \notin Columns
         THEN "UndefinedColumn"
    ELSE ""

\* The rows a statement returns: the RETURNING columns of each, and the
\* status when asked for. out is a sequence of [row, xmax].
Returned(returning, out) ==
    IF ~returning.present THEN <<>>
    ELSE [i \in DOMAIN out |->
            [c \in Range(returning.cols) \cup (IF returning.status THEN {"status_"} ELSE {}) |->
                IF c = "status_" THEN StatusCase(out[i].xmax) ELSE out[i].row[c]]]

\* INSERT ... ON CONFLICT, one proposed row after the other. acc is
\* [table, nextId, out, touched, error]; touched holds the ids of the rows this
\* statement has inserted or updated.
RECURSIVE InsertRows(_, _, _)
InsertRows(stmt, proposed, acc) ==
    IF proposed = <<>> \/ acc.error # "" THEN acc
    ELSE
      LET given == Head(proposed)
          conflicts == {e \in acc.table :
                          \A i \in DOMAIN stmt.conflict_target :
                              e[stmt.conflict_target[i]] = given[stmt.conflict_target[i]]}
      IN  IF conflicts = {}
          THEN LET p == [c \in Columns |->
                            IF c \in DOMAIN given THEN given[c] ELSE acc.nextId]
               IN  InsertRows(stmt, Tail(proposed),
                      [acc EXCEPT !.table = @ \cup {p},
                                  !.nextId = IF "id" \in DOMAIN given THEN @ ELSE @ + 1,
                                  !.out = Append(@, [row |-> p, xmax |-> 0]),
                                  !.touched = @ \cup {p.id}])
          ELSE LET e == CHOOSE r \in conflicts : TRUE
               IN  IF stmt.do = "NOTHING"
                   THEN InsertRows(stmt, Tail(proposed), acc)
                   ELSE IF e.id \in acc.touched
                   THEN [acc EXCEPT !.error = "CardinalityViolation"]
                   ELSE IF ~WhereHolds(stmt.where, e, given)
                   THEN InsertRows(stmt, Tail(proposed), acc)
                   ELSE LET n == ApplySet(stmt.set, e, given)
                        IN  InsertRows(stmt, Tail(proposed),
                               [acc EXCEPT !.table = (@ \ {e}) \cup {n},
                                           !.out = Append(@, [row |-> n, xmax |-> 1]),
                                           !.touched = @ \cup {e.id}])

\* cursor.execute(sql, sql_args) of _upsert: [error, table, nextId, rows, description].
ExecuteUpsert(stmt, sql_args, tbl, nid) ==
    LET n == Len(stmt.columns)
        proposed == [i \in DOMAIN stmt.row_values |->
                        [c \in Range(stmt.columns) |->
                            sql_args[(i - 1) * n
                                     + CHOOSE j \in DOMAIN stmt.columns : stmt.columns[j] = c]]]
        early == AnalysisError(UpsertText(stmt), sql_args,
                               IF stmt.do = "UPDATE" THEN stmt.set ELSE <<>>,
                               stmt.where, stmt.returning)
        acc == InsertRows(stmt, proposed,
                          [table |-> tbl, nextId |-> nid, out |-> <<>>, touched |-> {},
                           error |-> ""])
        failed == IF early # "" THEN early ELSE acc.error
    IN  IF failed # ""
        THEN [error |-> failed, table |-> tbl, nextId |-> nid, rows |-> <<>>,
              description |-> FALSE]
        ELSE [error |-> "", table |-> acc.table, nextId |-> acc.nextId,
              rows |-> Returned(stmt.returning, acc.out),
              description |-> stmt.returning.present]

\* ------------------------------------------------------------------ upsert
\* A result is None, or a list of rows.
Truthy(returning) == returning.all \/ returning.cols # <<>>
NoResult == [none |-> TRUE, rows |-> <<>>]
Rows(rows) == [none |-> FALSE, rows |-> rows]

\* A return that tests the rows instead of returning.
UpsertReturnIfAny(returning, upserted) ==
    IF Truthy(returning) /\ upserted # <<>> THEN Rows(upserted) ELSE NoResult

\* return UpsertResult(upserted) if returning else None
UpsertReturn(returning, upserted) ==
    IF Truthy(returning) THEN Rows(upserted) ELSE NoResult

\* return updated if returning else None
UpdateReturn(returning, updated) ==
    IF Truthy(returning) THEN Rows(updated) ELSE NoResult

\* UpsertResult.created and UpsertResult.updated
Created(rows) == SelectSeq(rows, LAMBDA i : i.status_ = "c")
Updated(rows) == SelectSeq(rows, LAMBDA i : i.status_ = "u")

Raised(err, tbl, nid, stmt, sql_args) ==
    [error |-> err, table |-> tbl, nextId |-> nid, stmt |-> stmt, sql_args |-> sql_args,
     executed |-> stmt.kind # "none", ret |-> NoResult]

\* What iterating model_objs yields after _fill_auto_fields has iterated it
\* (`for value in values`): the records again for a list, nothing for an
\* iterator or a generator (once), which the first traversal has exhausted.
SecondTraversal(objs, once) == IF once THEN <<>> ELSE objs

\* _upsert, for the table tbl and the sequence value nid:
\* [error, table, nextId, stmt, sql_args, executed, ret]. c.objs is what
\* model_objs yields, c.once whether it can be traversed only once.
UpsertCall(c, tbl, nid) ==
    LET exclude == c.exclude
        filled == FillAutoFields(c.objs, c.now)
        model_objs == SortByUniqueFields(SecondTraversal(filled, c.once),
                                         c.unique_fields)
        uf == GetUpdateFields(c.update_fields, exclude \o c.unique_fields)
        sql == GetUpsertSql(model_objs, c.unique_fields, uf.fields, c.returning,
                            c.ignore_unchanged)
        sql_args == PrepSqlArgs(sql.sql_args)
        run == ExecuteUpsert(sql.stmt, sql_args, tbl, nid)
    IN  IF uf.error # "" THEN Raised(uf.error, tbl, nid, NoStmt, <<>>)
        ELSE IF model_objs = <<>>
        THEN [error |-> "", table |-> tbl, nextId |-> nid, stmt |-> NoStmt,
              sql_args |-> <<>>, executed |-> FALSE,
              ret |-> UpsertReturn(c.returning, <<>>)]
        ELSE IF sql.error # "" THEN Raised(sql.error, tbl, nid, NoStmt, <<>>)
        ELSE IF run.error # "" THEN Raised(run.error, tbl, nid, sql.stmt, sql_args)
        ELSE [error |-> "", table |-> run.table, nextId |-> run.nextId,
              stmt |-> sql.stmt, sql_args |-> sql_args, executed |-> TRUE,
              ret |-> UpsertReturn(c.returning,
                                   IF run.description THEN run.rows ELSE <<>>)]


\* ------------------------------------------------------------------ update
\* If we do not have any values or fields to update, just return.
NothingToUpdate(row_values, update_fields) ==
    Len(row_values) = 0 \/ Len(update_fields) = 0

\* The statement of _update: [error, stmt, sql_args]; stmt is NoStmt when
\* there is nothing to update.
GetUpdateSql(model_objs, update_fields, returning, ignore_unchanged) ==
    LET alias == "new_values"
        value_fields == <<PkField.attname>> \o Names(update_fields)
        row_values == [i \in DOMAIN model_objs |->
                        [j \in DOMAIN value_fields |->
                            GetFieldDbVal(GetField(value_fields[j]),
                                          model_objs[i][GetField(value_fields[j]).attname])]]
        db_types == [j \in DOMAIN value_fields |-> GetField(value_fields[j]).db_type]
        update_sql == GetUpdateFieldsSql(update_fields, alias, ignore_unchanged)
        \* enumerate() counts from 0: the cast goes to the first row's
        \* entries other than its first.
        values_sql == [i \in DOMAIN row_values |->
                        [j \in DOMAIN row_values[i] |->
                            IF i = 1 /\ j # 1 THEN <<"%s", "::" \o db_types[j]>>
                            ELSE <<"%s">>]]
    IN  IF NothingToUpdate(row_values, update_fields)
        THEN [error |-> "", stmt |-> NoStmt, sql_args |-> <<>>]
        ELSE [error |-> "",
              stmt |->
                [kind |-> "update",
                 table |-> Table,
                 set |-> update_sql.set,
                 row_values |-> values_sql,
                 alias |-> alias,
                 value_fields |->
                    [j \in DOMAIN value_fields |-> GetField(value_fields[j]).column],
                 pk_field |-> PkField.column,
                 where |-> update_sql.where,
                 returning |-> GetReturningSql(returning, FALSE)],
              sql_args |-> Flatten(row_values)]

\* The text of the update statement (the format string of _update).
UpdateText(stmt) ==
    <<"UPDATE", Quote(stmt.table), "SET">> \o SetText(stmt.set)
    \o <<"FROM (VALUES">> \o GroupsText(stmt.row_values)
    \o <<") AS", stmt.alias, "(">> \o QuotedCols(stmt.value_fields) \o <<")">>
    \o <<"WHERE", Quote(stmt.table), ".", Quote(stmt.pk_field), "=",
         "new_values", ".", Quote(stmt.pk_field)>>
    \o (IF stmt.where.present THEN <<"AND">> \o WhereText(stmt.where) ELSE <<>>)
    \o ReturningText(stmt.returning)

\* UPDATE ... FROM (VALUES ...): each row of the table, in the order of the
\* scan, is updated once, from one of the VALUES rows that join it and pass the
\* WHERE clause; PostgreSQL fixes neither the order nor which one (pick). The
\* unique index on owner_id is checked as each row is written.
RECURSIVE UpdateRows(_, _, _, _, _)
UpdateRows(stmt, values, ids, pick, acc) ==
    IF ids = <<>> \/ acc.error # "" THEN acc
    ELSE
      LET e == CHOOSE r \in acc.table : r.id = Head(ids)
          joined == SelectSeq([i \in DOMAIN values |-> i],
                              LAMBDA i : /\ values[i][stmt.pk_field] = e[stmt.pk_field]
                                         /\ WhereHolds(stmt.where, e, values[i]))
      IN  IF joined = <<>> THEN UpdateRows(stmt, values, Tail(ids), pick, acc)
          ELSE LET n == ApplySet(stmt.set, e,
                                 values[joined[((pick - 1) % Len(joined)) + 1]])
               IN  IF \E r \in acc.table \ {e} : r.owner_id = n.owner_id
                   THEN [acc EXCEPT !.error = "IntegrityError"]
                   ELSE UpdateRows(stmt, values, Tail(ids), pick,
                           [acc EXCEPT !.table = (@ \ {e}) \cup {n},
                                       !.out = Append(@, [row |-> n, xmax |-> 0])])

RECURSIVE ScanOrder(_, _, _)
ScanOrder(tbl, i, ascending) ==
    IF i = 0 THEN <<>>
    ELSE LET here == IF \E r \in tbl : r.id = i THEN <<i>> ELSE <<>>
         IN  IF ascending THEN ScanOrder(tbl, i - 1, ascending) \o here
             ELSE here \o ScanOrder(tbl, i - 1, ascending)

\* cursor.execute(update_sql, update_sql_params) of _update.
ExecuteUpdate(stmt, sql_args, tbl, nid, ascending, pick) ==
    LET n == Len(stmt.value_fields)
        values == [i \in DOMAIN stmt.row_values |->
                    [c \in Range(stmt.value_fields) |->
                        sql_args[(i - 1) * n
                                 + CHOOSE j \in DOMAIN stmt.value_fields :
                                        stmt.value_fields[j] = c]]]
        early == AnalysisError(UpdateText(stmt), sql_args, stmt.set, stmt.where,
                               stmt.returning)
        acc == UpdateRows(stmt, values, ScanOrder(tbl, nid - 1, ascending), pick,
                          [table |-> tbl, out |-> <<>>, error |-> ""])
        failed == IF early # "" THEN early ELSE acc.error
    IN  IF failed # ""
        THEN [error |-> failed, table |-> tbl, rows |-> <<>>, description |-> FALSE]
        ELSE [error |-> "", table |-> acc.table,
              rows |-> Returned(stmt.returning, acc.out),
              description |-> stmt.returning.present]

\* _update: [error, table, nextId, stmt, sql_args, executed, ret].
UpdateCall(c, tbl, nid, ascending, pick) ==
    LET uf == GetUpdateFields(c.update_fields, c.exclude)
        model_objs == SortByPk(c.objs)
        sql == GetUpdateSql(model_objs, uf.fields, c.returning, c.ignore_unchanged)
        sql_args == PrepSqlArgs(sql.sql_args)
        run == ExecuteUpdate(sql.stmt, sql_args, tbl, nid, ascending, pick)
    IN  IF uf.error # "" THEN Raised(uf.error, tbl, nid, NoStmt, <<>>)
        ELSE IF sql.stmt = NoStmt
        THEN [error |-> "", table |-> tbl, nextId |-> nid, stmt |-> NoStmt,
              sql_args |-> <<>>, executed |-> FALSE, ret |-> NoResult]
        ELSE IF run.error # "" THEN Raised(run.error, tbl, nid, sql.stmt, sql_args)
        ELSE [error |-> "", table |-> run.table, nextId |-> nid,
              stmt |-> sql.stmt, sql_args |-> sql_args, executed |-> TRUE,
              ret |-> UpdateReturn(c.returning,
                                   IF run.description THEN run.rows ELSE <<>>)]

\* ------------------------------------------------------------- the inputs
\* The records of an upsert: new instances, with no id and no timestamps.
UpsertRecord(k, x) == [id |-> 0, owner_id |-> k, v |-> x, created |-> 0, modified |-> 0]
UpsertRecords == {UpsertRecord(k, x) : k \in Keys, x \in Vals}

\* The records of an update: instances with an id, stamped t by the caller.
UpdateRecord(k, x, t) == [id |-> k, owner_id |-> k, v |-> x, created |-> 0, modified |-> t]
UpdateRecords(t) == {UpdateRecord(k, x, t) : k \in Keys, x \in Vals}

Some(fs) == [some |-> TRUE, val |-> fs]
None == [some |-> FALSE, val |-> <<>>]
True == [all |-> TRUE, cols |-> <<>>]
False == [all |-> FALSE, cols |-> <<>>]
Only(cols) == [all |-> FALSE, cols |-> cols]

Options(unique_fields, update_fields, exclude, returning, ignore_unchanged) ==
    [unique_fields |-> unique_fields, update_fields |-> update_fields,
     exclude |-> exclude, returning |-> returning, ignore_unchanged |-> ignore_unchanged]

\* The calls that write: what is updated, what is returned.
Writing ==
    {Options(f[1], f[2], <<>>, r[1], r[2]) :
        f \in {<<<<"owner_id">>, None>>, <<<<"owner_id">>, Some(<<>>)>>,
               <<<<"owner_id">>, Some(<<Plain("v")>>)>>,
               <<<<"owner_id">>, Some(<<UpdateField("v", <<"Value", "a">>)>>)>>,
               <<<<"owner">>, None>>, <<<<"owner">>, Some(<<Plain("v")>>)>>},
        r \in {<<False, FALSE>>, <<True, FALSE>>, <<True, TRUE>>, <<Only(<<"v">>), FALSE>>}}

\* The calls that try the selection of the update fields.
Selecting ==
    {Options(f[1], Some(f[2]), f[3], True, TRUE) :
        f \in {<<<<"owner_id">>, <<UpdateField("v", <<"Value", "%s">>)>>, <<>>>>,
               <<<<"owner_id">>, <<Plain("owner")>>, <<>>>>,
               <<<<"owner">>, <<Plain("owner_id")>>, <<>>>>,
               <<<<"owner_id">>, <<Plain("owner_id")>>, <<>>>>,
               <<<<"owner_id">>, <<Plain("id"), Plain("created"), Plain("v")>>, <<>>>>,
               <<<<"owner_id">>, <<Plain("gen")>>, <<>>>>,
               <<<<"owner_id">>, <<Plain("bogus")>>, <<>>>>,
               <<<<"owner_id">>, <<Plain("v")>>, <<"v">>>>,
               <<<<"owner_id">>, <<Plain("bogus"), Plain("v")>>, <<"bogus">>>>,
               <<<<"owner_id">>, <<Plain("gen")>>, <<"gen">>>>,
               <<<<"owner_id">>, <<Plain("v"), Plain("v")>>, <<>>>>,
               <<<<"owner_id">>, <<Plain("v"), Plain("modified"),
                                   UpdateField("v", <<"Value", "a">>)>>, <<>>>>,
               <<<<"owner_id">>, <<UpdateField("v", <<"Value", "a">>),
                                   Plain("modified")>>, <<>>>>,
               <<<<"owner_id">>, <<Plain("owner"), Plain("owner_id")>>, <<>>>>}}
    \cup {Options(<<"owner_id">>, None, <<"modified">>, True, TRUE)}

\* The batches the selecting calls are made with, of every length.
Sample(n) ==
    [i \in 1..n |-> IF i % 2 = 1 THEN <<((i - 1) % MaxKey) + 1, "a">>
                    ELSE <<((i - 1) % MaxKey) + 1, "None">>]
Samples == {Sample(n) : n \in 0..MaxBatch}

UpsertArgs ==
    {[objs |-> objs, opt |-> o] : objs \in SeqsUpTo(UpsertRecords, MaxBatch), o \in Writing}
    \cup {[objs |-> [i \in DOMAIN s |-> UpsertRecord(s[i][1], s[i][2])], opt |-> o] :
            s \in Samples, o \in Selecting}

UpdateArgs(t) ==
    {[objs |-> objs, opt |-> o] :
        objs \in SeqsUpTo(UpdateRecords(t), MaxBatch),
        o \in {w \in Writing : w.unique_fields = <<"owner_id">>}}
    \cup {[objs |-> [i \in DOMAIN s |-> UpdateRecord(s[i][1], s[i][2], t)], opt |-> o] :
            s \in Samples, o \in {w \in Selecting : w.unique_fields = <<"owner_id">>}}

\* --------------------------------------------------------------- the state
VARIABLES
    table,      \* the rows of the table
    nextId,     \* the next value of the id sequence
    clock,      \* timezone.now() does not go back
    pc,         \* "idle", or "done" when a call has returned or raised
    call,       \* the arguments of that call
    pre,        \* the rows of the table when it was made
    out         \* what it did: error, stmt, sql_args, executed, ret

vars == <<table, nextId, clock, pc, call, pre, out>>

NoCall == [op |-> "none"]
NoOut == [error |-> "", stmt |-> NoStmt, sql_args |-> <<>>, executed |-> FALSE,
          ret |-> NoResult]

Init ==
    /\ table = {}
    /\ nextId = 1
    /\ clock = 1
    /\ pc = "idle"
    /\ call = NoCall
    /\ pre = {}
    /\ out = NoOut

Finish(c, r) ==
    /\ table' = r.table
    /\ nextId' = r.nextId
    /\ pc' = "done"
    /\ call' = c
    /\ pre' = table
    /\ out' = [error |-> r.error, stmt |-> r.stmt, sql_args |-> r.sql_args,
               executed |-> r.executed, ret |-> r.ret]

\* pgbulk.upsert
Upsert ==
    /\ pc = "idle"
    /\ \E a \in UpsertArgs, now \in Times :
        /\ now >= clock
        /\ clock' = now
        /\ LET c == [op |-> "upsert", objs |-> a.objs,
                     unique_fields |-> a.opt.unique_fields,
                     update_fields |-> a.opt.update_fields, exclude |-> a.opt.exclude,
                     returning |-> a.opt.returning,
                     ignore_unchanged |-> a.opt.ignore_unchanged,
                     now |-> now, again |-> FALSE, once |-> FALSE]
           IN  \E r \in {UpsertCall(c, table, nextId)} : Finish(c, r)

\* pgbulk.upsert, called once more with the arguments of the upsert that has
\* just returned.
UpsertAgain ==
    /\ pc = "done"
    /\ call.op = "upsert"
    /\ ~call.again
    /\ out.error = ""
    /\ \E now \in Times :
        /\ now >= clock
        /\ clock' = now
        /\ LET c == [call EXCEPT !.now = now, !.again = TRUE]
           IN  \E r \in {UpsertCall(c, table, nextId)} : Finish(c, r)

\* pgbulk.update. The order of the scan and the choice among joined rows are
\* PostgreSQL's, not arguments: the call does not record them.
Update ==
    /\ pc = "idle"
    /\ \E a \in UpdateArgs(clock), ascending \in BOOLEAN, pick \in 1..MaxBatch :
        /\ clock' = clock
        /\ LET c == [op |-> "update", objs |-> a.objs,
                     unique_fields |-> <<>>,
                     update_fields |-> a.opt.update_fields, exclude |-> a.opt.exclude,
                     returning |-> a.opt.returning,
                     ignore_unchanged |-> a.opt.ignore_unchanged,
                     now |-> clock, again |-> FALSE, once |-> FALSE]
           IN  \E r \in {UpdateCall(c, table, nextId, ascending, pick)} : Finish(c, r)

\* The caller is done with the result: the engine keeps nothing of a call.
Return ==
    /\ pc = "done"
    /\ pc' = "idle"
    /\ call' = NoCall
    /\ pre' = {}
    /\ out' = NoOut
    /\ UNCHANGED <<table, nextId, clock>>

Next == Upsert \/ UpsertAgain \/ Update \/ Return

Spec == Init /\ [][Next]_vars

\* pgbulk.upsert with model_objs any Iterable: a list, or an iterator or
\* generator that yields the same records once.
UpsertIterable ==
    /\ pc = "idle"
    /\ \E a \in UpsertArgs, once \in BOOLEAN :
        /\ clock' = clock
        /\ LET c == [op |-> "upsert", objs |-> a.objs,
                     unique_fields |-> a.opt.unique_fields,
                     update_fields |-> a.opt.update_fields, exclude |-> a.opt.exclude,
                     returning |-> a.opt.returning,
                     ignore_unchanged |-> a.opt.ignore_unchanged,
                     now |-> clock, again |-> FALSE, once |-> once]
           IN  \E r \in {UpsertCall(c, table, nextId)} : Finish(c, r)

NextIterable == UpsertIterable \/ Return

SpecIterable == Init /\ [][NextIterable]_vars
\* ================================================================== claims
\* What the claims speak of, stated from the call's arguments.
Succeeded == pc = "done" /\ out.error = ""
Compiled == pc = "done" /\ out.stmt.kind # "none"
BatchKeys == {o.owner_id : o \in Range(call.objs)}
BatchIds == {o.id : o \in Range(call.objs)}
PreKeys == {e.owner_id : e \in pre}
DistinctKeys ==
    \A i, j \in DOMAIN call.objs : i # j => call.objs[i].owner_id # call.objs[j].owner_id

\* The update fields the caller asked for: the requested ones (every concrete,
\* not generated field by default) but the excluded names, the unique_fields of
\* an upsert, the primary key and the auto_now_add fields.
Requested ==
    IF call.update_fields.some THEN call.update_fields.val
    ELSE LET all == SelectSeq(MetaFields, LAMBDA f : f.concrete /\ ~f.generated)
         IN  [i \in DOMAIN all |-> Plain(all[i].attname)]
Effective ==
    SelectSeq(Requested,
              LAMBDA e : /\ e.name \notin Range(call.exclude) \cup Range(call.unique_fields)
                         /\ ~GetField(e.name).primary_key
                         /\ ~GetField(e.name).auto_now_add)
EffectiveCols == {GetField(e.name).column : e \in Range(Effective)}

\* The value an effective update column is to take from the record o: the
\* value of its expression, the time of the call for a timestamp an upsert
\* fills, the record's value otherwise.
NewValue(o, col) ==
    LET e == CHOOSE x \in Range(Effective) : GetField(x.name).column = col
    IN  IF e.expression # <<>> THEN e.expression[2]
        ELSE IF call.op = "upsert" /\ (GetField(col).auto_now \/ GetField(col).auto_now_add)
        THEN call.now
        ELSE o[GetField(col).attname]

\* C1: after an upsert of records with pairwise distinct unique keys the table
\* holds exactly one row per record key: a record that matched no row is
\* inserted with the record's values (its timestamps are the time of the call),
\* a record that matched a row leaves that row with every effective update
\* column at the record's value (or at the value of its expression) and every
\* other column as it was; the rows of other keys are as they were.
C1_UpsertWrites ==
    (Succeeded /\ call.op = "upsert" /\ DistinctKeys) =>
        /\ \A o \in Range(call.objs) :
            LET rows == {r \in table : r.owner_id = o.owner_id}
                old == {e \in pre : e.owner_id = o.owner_id}
            IN  /\ Cardinality(rows) = 1
                /\ \A r \in rows :
                    IF old = {}
                    THEN /\ r.v = o.v
                         /\ r.created = call.now
                         /\ r.modified = call.now
                         /\ r.id \notin {e.id : e \in pre}
                    ELSE \A e \in old : \A c \in Columns :
                            r[c] = IF c \in EffectiveCols THEN NewValue(o, c) ELSE e[c]
        /\ \A e \in pre : e.owner_id \notin BatchKeys => e \in table
        /\ \A r \in table : r.owner_id \notin BatchKeys => r \in pre

\* A batch of two records, one inserted and one whose row took a new v.
C1_Witness ==
    /\ Succeeded /\ call.op = "upsert" /\ DistinctKeys /\ Len(call.objs) = 2
    /\ "v" \in EffectiveCols
    /\ \E o \in Range(call.objs) : o.owner_id \notin PreKeys
    /\ \E o \in Range(call.objs) : \E e \in pre : \E r \in table :
          /\ e.owner_id = o.owner_id /\ r.owner_id = o.owner_id
          /\ e.v # NewValue(o, "v") /\ r.v = NewValue(o, "v")

\* C2: every row of a returning upsert's result is tagged "c" or "u", the
\* created and the updated views are disjoint and hold every row between them,
\* and a row is tagged "c" exactly when its key was not in the table before the
\* statement (it was inserted) and "u" when it was (it took the conflict arm).
C2_StatusPartition ==
    (Succeeded /\ call.op = "upsert" /\ Truthy(call.returning)) =>
        LET rows == out.ret.rows
        IN  /\ ~out.ret.none
            /\ \A i \in DOMAIN rows : rows[i].status_ \in {"c", "u"}
            /\ Range(Created(rows)) \cap Range(Updated(rows)) = {}
            /\ Len(Created(rows)) + Len(Updated(rows)) = Len(rows)
            /\ Len(Created(rows)) = Cardinality(BatchKeys \ PreKeys)
            /\ Len(Updated(rows)) <= Cardinality(BatchKeys \cap PreKeys)
            /\ call.returning.all =>
                /\ \A i \in DOMAIN rows :
                      /\ rows[i].owner_id \in BatchKeys
                      /\ rows[i].status_ = "c" <=> rows[i].owner_id \notin PreKeys
                      /\ rows[i].status_ = "u" <=> rows[i].owner_id \in PreKeys
                /\ {r.owner_id : r \in Range(Created(rows))} = BatchKeys \ PreKeys

\* A result with a created and an updated row.
C2_Witness ==
    /\ Succeeded /\ call.op = "upsert" /\ call.returning.all
    /\ Created(out.ret.rows) # <<>>
    /\ Updated(out.ret.rows) # <<>>
\* C3: upserting the same batch a second time with ignore_unchanged changes no
\* row: the second call returns no row and leaves the table as it was, for
\* every choice of update_fields.
C3_SecondUpsertChangesNothing ==
    (Succeeded /\ call.op = "upsert" /\ call.again /\ call.ignore_unchanged
       /\ Truthy(call.returning)) =>
        /\ out.ret.rows = <<>>
        /\ table = pre

\* C4 as stated: a call with an empty batch executes no statement and returns
\* None, also when returning was asked for.
C4_EmptyBatchReturnsNone ==
    (Succeeded /\ call.objs = <<>>) =>
        /\ ~out.executed
        /\ out.stmt.kind = "none"
        /\ out.ret.none

\* C4, amended: a call with an empty batch executes no statement and leaves the
\* table as it was; an update returns None whatever returning is, an upsert
\* returns None when returning was not asked for and an empty result when it was.
C4_EmptyBatch ==
    (Succeeded /\ call.objs = <<>>) =>
        /\ ~out.executed
        /\ out.stmt.kind = "none"
        /\ table = pre
        /\ out.ret.rows = <<>>
        /\ call.op = "update" => out.ret.none
        /\ call.op = "upsert" => (out.ret.none <=> ~Truthy(call.returning))

\* An upsert of no record that was asked to return rows.
C4_Witness ==
    /\ Succeeded /\ call.op = "upsert" /\ call.objs = <<>>
    /\ call.returning.all /\ pre # {}
    /\ ~out.ret.none

\* C5: an upsert compiles to DO NOTHING exactly when no effective update field
\* is left after the exclusions; such a statement leaves every row that was in
\* the table untouched and returns no row tagged updated, only inserted ones.
C5_DoNothing ==
    (Compiled /\ call.op = "upsert") =>
        /\ out.stmt.do = "NOTHING" <=> Effective = <<>>
        /\ "DO NOTHING" \in Range(UpsertText(out.stmt)) <=> Effective = <<>>
        /\ "DO UPDATE SET" \in Range(UpsertText(out.stmt)) <=> Effective # <<>>
        /\ (Effective = <<>> /\ Succeeded) =>
            /\ \A e \in pre : e \in table
            /\ Updated(out.ret.rows) = <<>>
            /\ Len(out.ret.rows) = (IF Truthy(call.returning)
                                    THEN Cardinality(BatchKeys \ PreKeys) ELSE 0)

\* Fields were asked for and all excluded; a record met a row and another did not.
C5_Witness ==
    /\ Compiled /\ Succeeded /\ call.op = "upsert" /\ call.returning.all
    /\ Requested # <<>> /\ Effective = <<>>
    /\ BatchKeys \cap PreKeys # {}
    /\ Created(out.ret.rows) # <<>>

\* C6: an update with ignore_unchanged that returns rows reports exactly the
\* rows whose primary key is in the batch and for which a record of that key
\* carries an update-column value distinct from the stored one, NULL being
\* equal to NULL; every other row is as it was and is not reported.
C6_UpdateReportsChanged ==
    (Succeeded /\ call.op = "update" /\ call.ignore_unchanged /\ call.returning.all) =>
        LET changed == {o.id : o \in {x \in Range(call.objs) :
                            \E e \in pre : /\ e.id = x.id
                                           /\ \E c \in EffectiveCols :
                                                 NewValue(x, c) # e[c]}}
            reported == {r.id : r \in Range(out.ret.rows)}
        IN  /\ reported = changed
            /\ Len(out.ret.rows) = Cardinality(reported)
            /\ Range(out.ret.rows) \subseteq table
            /\ \A e \in pre : e.id \notin changed => e \in table
            /\ {r.id : r \in table} = {e.id : e \in pre}

\* Two records of rows of the table: one NULL over NULL, not reported, and
\* one reported.
C6_Witness ==
    /\ Succeeded /\ call.op = "update" /\ call.ignore_unchanged /\ call.returning.all
    /\ EffectiveCols = {"v"} /\ Len(call.objs) = 2
    /\ \E o \in Range(call.objs) : \E e \in pre :
          /\ e.id = o.id /\ e.v = "None" /\ o.v = "None"
          /\ o.id \notin {r.id : r \in Range(out.ret.rows)}
    /\ \E o \in Range(call.objs) : \E e \in pre :
          /\ e.id = o.id /\ e.v = "None" /\ o.v = "a"
          /\ o.id \in {r.id : r \in Range(out.ret.rows)}

\* C7: the SET clause of a compiled statement names no primary-key column, no
\* generated or auto-increment column and no auto_now_add column, whatever
\* update_fields and exclude are.
C7_NeverUpdated ==
    Compiled =>
        \A i \in DOMAIN out.stmt.set :
            \A f \in Range(MetaFields) :
                f.column = out.stmt.set[i].col =>
                    /\ ~f.primary_key
                    /\ ~f.is_autofield
                    /\ ~f.generated
                    /\ ~f.auto_now_add

\* The primary key and the auto_now_add field were asked for, and something is set.
C7_Witness ==
    /\ Compiled /\ call.update_fields.some
    /\ {"id", "created"} \subseteq Range(Names(call.update_fields.val))
    /\ out.stmt.set # <<>>

\* C8: no column named in unique_fields is in the DO UPDATE SET list of an
\* upsert, by whichever name the caller gives it.
C8_UniqueNotSet ==
    (Compiled /\ call.op = "upsert") =>
        \A i \in DOMAIN out.stmt.set :
            out.stmt.set[i].col \notin
                {GetField(u).column : u \in Range(call.unique_fields)}

\* A name that is neither the name nor the attname of a field of the model.
Unknown(n) == ~HasField(n)

\* The errors of an invalid call.
ConfigurationError == {"KeyError", "FieldDoesNotExist"}

\* C9: a call that asks for an unknown update field fails with a
\* configuration error before a statement is built, and the table is unchanged.
C9_UnknownFieldFails ==
    (pc = "done" /\ \E e \in Range(Requested) : Unknown(e.name)) =>
        /\ out.error \in ConfigurationError
        /\ out.stmt.kind = "none"
        /\ ~out.executed
        /\ table = pre

\* The text handed to cursor.execute.
Text(stmt) == IF stmt.kind = "insert" THEN UpsertText(stmt) ELSE UpdateText(stmt)

\* C10: the text of every compiled statement holds as many placeholders as
\* the argument list handed with it has entries.
C10_PlaceholderParity ==
    Compiled => NumPlaceholders(Text(out.stmt)) = Len(out.sql_args)

\* C11: upsert writes every record its iterable yields, whether or not the
\* iterable can be traversed more than once: after a successful call of at least
\* one record a statement was executed and the table holds a row for the key of
\* every record.
C11_EveryRecordUpserted ==
    (Succeeded /\ call.op = "upsert" /\ call.objs # <<>>) =>
        /\ out.executed
        /\ BatchKeys \subseteq {r.owner_id : r \in table}

\* The columns of the VALUES constructor of a compiled statement.
ValuesColumns(stmt) == IF stmt.kind = "insert" THEN stmt.columns ELSE stmt.value_fields

\* C12: in the VALUES constructor of a compiled upsert or update statement
\* every placeholder of the first group carries the cast to the storage type of
\* its column, the primary-key join column of an update included, and every
\* placeholder of a later group is untyped.
C12_FirstGroupCast ==
    Compiled =>
        LET groups == out.stmt.row_values
            cols == ValuesColumns(out.stmt)
        IN  \A i \in DOMAIN groups :
                /\ Len(groups[i]) = Len(cols)
                /\ \A j \in DOMAIN groups[i] :
                      IF i = 1
                      THEN groups[i][j] = <<"%s", "::" \o GetField(cols[j]).db_type>>
                      ELSE groups[i][j] = <<"%s">>

\* The records of the VALUES list of a compiled statement, in its order: the
\* arguments of each group, by column.
ValuesRows(stmt, sql_args) ==
    LET cols == ValuesColumns(stmt)
    IN  [i \in DOMAIN stmt.row_values |->
            [c \in Range(cols) |->
                sql_args[(i - 1) * Len(cols)
                         + CHOOSE j \in DOMAIN cols : cols[j] = c]]]

\* The storage values of the record o in the columns cols: an upsert stamps
\* the timestamps with the time of the call.
StorageValues(o, cols) ==
    [c \in Range(cols) |->
        IF call.op = "upsert" /\ (GetField(c).auto_now \/ GetField(c).auto_now_add)
        THEN call.now
        ELSE o[GetField(c).attname]]

\* The key columns of the call: those of unique_fields for an upsert, the
\* primary key for an update.
KeyColumns ==
    IF call.op = "upsert"
    THEN [i \in DOMAIN call.unique_fields |-> GetField(call.unique_fields[i]).column]
    ELSE <<PkField.column>>
KeyOf(row) == [i \in DOMAIN KeyColumns |-> row[KeyColumns[i]]]

\* C13: the VALUES list of a compiled statement is the stable ascending sort
\* of the batch by the tuple of the key columns' storage values (unique_fields
\* for an upsert, the primary key for an update): as many groups as records,
\* keys never decreasing, and the records of each key in their input order.
C13_ValuesSorted ==
    Compiled =>
        LET cols == ValuesColumns(out.stmt)
            rows == ValuesRows(out.stmt, out.sql_args)
            given == [i \in DOMAIN call.objs |-> StorageValues(call.objs[i], cols)]
        IN  /\ Len(rows) = Len(given)
            /\ \A i \in DOMAIN rows : \A j \in DOMAIN rows :
                  i < j => TupleLeq(KeyOf(rows[i]), KeyOf(rows[j]))
            /\ \A k \in {KeyOf(given[i]) : i \in DOMAIN given} :
                  SelectSeq(rows, LAMBDA r : KeyOf(r) = k)
                    = SelectSeq(given, LAMBDA r : KeyOf(r) = k)

\* C14: whenever the change predicate is emitted its two tuples have the same
\* length and the i-th element of the right one is the new value of the i-th
\* column of the left one, the expression the SET list assigns to that column,
\* also when the update fields name a column more than once or mix plain fields
\* with UpdateField expressions.
C14_PredicateAligned ==
    (Compiled /\ out.stmt.where.present) =>
        LET w == out.stmt.where
        IN  /\ Len(w.left) = Len(w.right)
            /\ \A i \in DOMAIN w.left :
                  /\ out.stmt.set[i].col = w.left[i]
                  /\ w.right[i] = out.stmt.set[i].expr
====
